---- MODULE Spec2Model ----
(***************************************************************************)
(* A model of struts_migration.py: the migration run of                    *)
(* MigrationManager.execute_migration (validate, backup directory,         *)
(* discovery, batched dispatch on a thread pool, report, rollback in the   *)
(* exception handler) over a small project tree.                           *)
(*                                                                         *)
(* The source as committed has a mis-indented docstring in                 *)
(* PathManager.validate_paths (line 85); the model reads the method with   *)
(* the docstring at the indentation of its body.                           *)
(***************************************************************************)
EXTENDS Integers, Sequences, FiniteSets, TLC

(***************************************************************************)
(* Bounds of the model.                                                    *)
(***************************************************************************)
MaxBatch == 3
MaxThreads == 2
MaxPatterns == 2
MaxDigits == 2
MaxUnitLen == 2

(***************************************************************************)
(* The project tree.  A path is the sequence of its components below the   *)
(* base directory.  FileOrder is the order in which the directory scan     *)
(* behind Path.glob yields the files (top directory first).                *)
(***************************************************************************)
BaseParts == <<"proj">>

FileOrder ==
    << <<"A.java">>, <<"notes.txt">>, <<"pom.xml">>, <<"struts.xml">>,
       <<"src", "B.java">> >>

FileSet == {FileOrder[k] : k \in 1..Len(FileOrder)}

PomFile == <<"pom.xml">>
StrutsConfigFile == <<"struts.xml">>

\* Path.suffix of the last component
Suffix(path) ==
    LET name == path[Len(path)]
    IN  CASE name \in {"A.java", "B.java"} -> ".java"
          [] name \in {"pom.xml", "struts.xml"} -> ".xml"
          [] name = "notes.txt" -> ".txt"
          [] OTHER -> ""

NameSuffix(name) == Suffix(<<name>>)

(***************************************************************************)
(* Glob patterns, as sequences of components.                              *)
(***************************************************************************)
\* fnmatch of one path component against one pattern component
CompMatch(name, pc) ==
    CASE pc \in {"*", "**"} -> TRUE
      [] pc = "*.java" -> NameSuffix(name) = ".java"
      [] pc = "*.xml" -> NameSuffix(name) = ".xml"
      [] pc = "*.txt" -> NameSuffix(name) = ".txt"
      [] OTHER -> name = pc

\* Path.glob: the pattern is anchored at the base directory and has to match
\* the whole relative path; "**" stands for zero or more directories.
RECURSIVE GlobMatch(_, _)
GlobMatch(rel, pat) ==
    IF pat = <<>> THEN rel = <<>>
    ELSE IF Head(pat) = "**"
         THEN \/ GlobMatch(rel, Tail(pat))
              \/ Len(rel) > 1 /\ GlobMatch(Tail(rel), pat)
         ELSE /\ rel # <<>>
              /\ CompMatch(Head(rel), Head(pat))
              /\ GlobMatch(Tail(rel), Tail(pat))

\* PurePath.match with a relative pattern: matched from the right against
\* the components of the full path (base directory included); "**" is an
\* ordinary wildcard here.
Match(rel, pat) ==
    LET full == BaseParts \o rel
        off  == Len(full) - Len(pat)
    IN  /\ pat # <<>>
        /\ off >= 0
        /\ \A k \in 1..Len(pat) : CompMatch(full[off + k], pat[k])

\* base_dir.glob(pattern): the present files that match, in scan order
Glob(present, pat) ==
    SelectSeq(FileOrder, LAMBDA f : f \in present /\ GlobMatch(f, pat))

(***************************************************************************)
(* FileProcessor._gather_files                                             *)
(***************************************************************************)
RECURSIVE ExtendAll(_, _)
ExtendAll(present, include_patterns) ==
    IF include_patterns = <<>> THEN <<>>
    ELSE Glob(present, Head(include_patterns))
            \o ExtendAll(present, Tail(include_patterns))

\* mutant of ApplyExclusions: only the first exclude pattern is applied
ApplyFirstExclusion(files, exclude_patterns) ==
    IF exclude_patterns = <<>> THEN files
    ELSE SelectSeq(files, LAMBDA f : ~Match(f, Head(exclude_patterns)))

RECURSIVE ApplyExclusions(_, _)
ApplyExclusions(files, exclude_patterns) ==
    IF exclude_patterns = <<>> THEN files
    ELSE ApplyExclusions(
            SelectSeq(files, LAMBDA f : ~Match(f, Head(exclude_patterns))),
            Tail(exclude_patterns))

GatherFiles(present, include_patterns, exclude_patterns) ==
    ApplyExclusions(ExtendAll(present, include_patterns), exclude_patterns)


(***************************************************************************)
(* Configurations and initial file systems the runs are drawn from.        *)
(***************************************************************************)
RECURSIVE SeqsUpTo(_, _)
SeqsUpTo(S, n) ==
    IF n = 0 THEN {<<>>}
    ELSE LET shorter == SeqsUpTo(S, n - 1)
         IN  shorter \cup {Append(q, x) : q \in shorter, x \in S}

\* include patterns end in a file-name pattern, so that glob yields files
IncludePatterns ==
    { <<"*.java">>, <<"**", "*.java">>, <<"src", "*.java">>, <<"*.txt">> }

ExcludePatterns ==
    { <<"*.java">>, <<"src", "*.java">>, <<"src", "**">>, <<"A.java">>,
      <<"*.txt">> }

\* the pattern sections used by the full runs
PatternConfigs ==
    { [include |-> << <<"**", "*.java">> >>, exclude |-> <<>>],
      [include |-> << <<"*.java">>, <<"**", "*.java">> >>, exclude |-> <<>>],
      [include |-> << <<"**", "*.java">>, <<"*.txt">> >>,
       exclude |-> << <<"src", "*.java">> >>],
      [include |-> << <<"**", "*.java">>, <<"**", "*.java">> >>,
       exclude |-> <<>>],
      [include |-> << <<"src", "*.java">> >>, exclude |-> <<>>],
      [include |-> << <<"*.txt">> >>, exclude |-> << <<"*.txt">> >>] }

Contents == {"absent", "orig", "new"}

AllAbsent == [f \in FileSet |-> "absent"]
FullTree == [f \in FileSet |-> "orig"]
NoPomTree == [FullTree EXCEPT ![PomFile] = "absent"]

\* the base directory before the run: complete, without pom.xml, or missing
InitialBases ==
    { [baseExists |-> TRUE, tree |-> FullTree],
      [baseExists |-> TRUE, tree |-> NoPomTree],
      [baseExists |-> FALSE, tree |-> AllAbsent] }

\* where paths.backup_dir of the configuration puts the backup directory
BackupLocations == {"inside", "outside"}

Present(d) == {f \in FileSet : d.tree[f] # "absent"}

(***************************************************************************)
(* State.                                                                  *)
(***************************************************************************)
VARIABLES
    cfg,              \* context.config (and the location of backup_dir)
    fs,               \* the file system: base tree, reports, backup directory
    fs0,              \* the file system when the run started
    pc,               \* position of execute_migration
    files_to_process, \* process_files: result of _gather_files
    i,                \* process_files: start index of the next batch
    futures,          \* process_files: the futures of the current batch
    awaited,          \* process_files: futures whose result() has returned
    submitted,        \* files handed to executor.submit, in order
    batches,          \* number of batches formed
    errorsLogged,     \* files logged by "Error processing file"
    rewritten,        \* files a transformer has rewritten
    error,            \* the exception caught by execute_migration
    surfaced,         \* the exception that leaves execute_migration
    restore,          \* what _rollback did
    report,           \* the report document built by _generate_report, if any
    maxBytes          \* maxBytes of the log handler: parse_size(max_size)

vars == <<cfg, fs, fs0, pc, files_to_process, i, futures, awaited, submitted,
          batches, errorsLogged, rewritten, error, surfaced, restore, report,
          maxBytes>>


Inside == cfg.backup_loc = "inside"

Min(a, b) == IF a < b THEN a ELSE b

(***************************************************************************)
(* parse_size.  A string is the sequence of its characters.                *)
(***************************************************************************)
IsDigit(c) == c \in {"0", "1", "2", "3", "4", "5", "6", "7", "8", "9"}

DigitValue(c) ==
    CASE c = "0" -> 0 [] c = "1" -> 1 [] c = "2" -> 2 [] c = "3" -> 3
      [] c = "4" -> 4 [] c = "5" -> 5 [] c = "6" -> 6 [] c = "7" -> 7
      [] c = "8" -> 8 [] c = "9" -> 9

\* the letters the size strings of the model are written with
IsAlpha(c) == c \in {"b", "k", "m", "g", "x", "B", "K", "M", "G", "X"}

\* str.upper on one character
Upper(c) ==
    CASE c = "b" -> "B" [] c = "k" -> "K" [] c = "m" -> "M"
      [] c = "g" -> "G" [] c = "x" -> "X" [] OTHER -> c

UpperStr(str) == [k \in 1..Len(str) |-> Upper(str[k])]

\* int() of a string of decimal digits
RECURSIVE ToInt(_)
ToInt(digits) ==
    IF digits = <<>> THEN 0
    ELSE ToInt(SubSeq(digits, 1, Len(digits) - 1)) * 10
            + DigitValue(digits[Len(digits)])

\* Python integers are unbounded: a byte count is the sequence of its
\* base-1024 digits, least significant first, without leading zeros
RECURSIVE Trim(_)
Trim(limbs) ==
    IF limbs = <<>> \/ limbs[Len(limbs)] # 0 THEN limbs
    ELSE Trim(SubSeq(limbs, 1, Len(limbs) - 1))

RECURSIVE TimesCarry(_, _, _)
TimesCarry(n, limbs, carry) ==
    IF limbs = <<>>
    THEN IF carry = 0 THEN <<>>
         ELSE <<carry % 1024>> \o TimesCarry(n, <<>>, carry \div 1024)
    ELSE LET t == Head(limbs) * n + carry
         IN  <<t % 1024>> \o TimesCarry(n, Tail(limbs), t \div 1024)

\* number * units[unit]
Times(n, limbs) == Trim(TimesCarry(n, limbs, 0))

\* mutant of Units: decimal kilobytes
UnitsDecimal ==
    (<<"B">> :> <<1>>) @@ (<<"K", "B">> :> <<1000>>)
    @@ (<<"M", "B">> :> <<0, 0, 1>>) @@ (<<"G", "B">> :> <<0, 0, 0, 1>>)

\* line 236: 1, 1024, 1024*1024, 1024*1024*1024
Units ==
    (<<"B">> :> <<1>>) @@ (<<"K", "B">> :> <<0, 1>>)
    @@ (<<"M", "B">> :> <<0, 0, 1>>) @@ (<<"G", "B">> :> <<0, 0, 0, 1>>)

\* lines 237-239: the value, or the exception raised (int('') raises
\* ValueError, units[unit] raises KeyError)
ParseSize(size_str) ==
    LET digits == SelectSeq(size_str, IsDigit)
        unit   == SelectSeq(UpperStr(size_str), IsAlpha)
    IN  IF digits = <<>> THEN [ok |-> FALSE, err |-> "ValueError"]
        ELSE IF unit \notin DOMAIN Units
             THEN [ok |-> FALSE, err |-> "KeyError"]
             ELSE [ok |-> TRUE, value |-> Times(ToInt(digits), Units[unit])]

(***************************************************************************)
(* Init: main() has parsed its arguments; the configuration file has been  *)
(* read.  batch_size and parallel_threads are positive.  A backup          *)
(* directory inside the base directory is absent or empty before the run;  *)
(* one outside of it may also hold a copy of the tree.                     *)
(***************************************************************************)
\* mutant of RequiredSections: 'logging' is not asked for
RequiredSectionsShort == {"paths", "files", "patterns", "migration"}

\* line 42
RequiredSections == {"paths", "files", "patterns", "migration", "logging"}

\* the top-level sections a configuration file is written with
SectionNames == {"paths", "files", "patterns", "migration", "logging"}

\* the sections of the configuration file: all five, or one of them missing
SectionChoices ==
    {SectionNames} \cup {SectionNames \ {x} : x \in SectionNames}

\* logging.max_size of the full runs
SizeStrings == { <<"1", "0", "M", "B">>, <<"1", "0", "X", "B">> }

InitialBackups(base, loc) ==
    {[bakExists |-> FALSE, bak |-> AllAbsent]}
    \cup (IF loc = "outside" \/ base.baseExists
          THEN {[bakExists |-> TRUE, bak |-> AllAbsent]} ELSE {})
    \cup (IF loc = "outside" /\ base.baseExists
          THEN {[bakExists |-> TRUE, bak |-> base.tree]} ELSE {})

InitRun ==
    /\ files_to_process = <<>>
    /\ i = 0
    /\ futures = <<>>
    /\ awaited = 0
    /\ submitted = <<>>
    /\ batches = 0
    /\ errorsLogged = <<>>
    /\ rewritten = {}
    /\ error = "none"
    /\ surfaced = "none"
    /\ restore = "none"
    /\ report = <<>>

Init ==
    /\ \E be \in BOOLEAN, re \in BOOLEAN, hp \in BOOLEAN,
          bs \in 1..MaxBatch, pt \in 1..MaxThreads,
          pats \in PatternConfigs, loc \in BackupLocations,
          secs \in SectionChoices, size \in SizeStrings :
          cfg = [backup_enabled |-> be, rollback_enabled |-> re,
                 batch_size |-> bs, parallel_threads |-> pt,
                 include |-> pats.include, exclude |-> pats.exclude,
                 has_project |-> hp, backup_loc |-> loc,
                 sections |-> secs, max_size |-> size]
    /\ \E base \in InitialBases :
          \E b \in InitialBackups(base, cfg.backup_loc) :
             fs = [baseExists |-> base.baseExists, tree |-> base.tree,
                   reports |-> 0, bakExists |-> b.bakExists, bak |-> b.bak]
    /\ fs0 = fs
    /\ pc = "construct"
    /\ maxBytes = <<>>
    /\ InitRun

(***************************************************************************)
(* MigrationManager.__init__: ConfigurationManager._validate_config, then  *)
(* LoggingManager.setup_logging, which parses logging.max_size.  An        *)
(* exception leaves the constructor and execute_migration is not called.   *)
(***************************************************************************)
Construct ==
    /\ pc = "construct"
    /\ IF ~(RequiredSections \subseteq cfg.sections)
       THEN /\ pc' = "construct_failed"
            /\ surfaced' = "ConfigError"
            /\ maxBytes' = maxBytes
       ELSE LET r == ParseSize(cfg.max_size)
            IN  IF r.ok
                THEN /\ pc' = "validate"
                     /\ surfaced' = surfaced
                     /\ maxBytes' = <<r.value>>
                ELSE /\ pc' = "construct_failed"
                     /\ surfaced' = r.err
                     /\ maxBytes' = maxBytes
    /\ UNCHANGED <<cfg, fs, fs0, files_to_process, i, futures, awaited,
                   submitted, batches, errorsLogged, rewritten, error,
                   restore, report>>

(***************************************************************************)
(* PathManager.validate_paths                                              *)
(***************************************************************************)
RequiredPathsExist(d) ==
    /\ d.baseExists
    /\ d.tree[PomFile] # "absent"
    /\ d.tree[StrutsConfigFile] # "absent"

Validate ==
    /\ pc = "validate"
    /\ IF RequiredPathsExist(fs)
       THEN pc' = "backup" /\ error' = error
       ELSE pc' = "except" /\ error' = "PathNotFound"
    /\ UNCHANGED <<cfg, fs, fs0, files_to_process, i, futures, awaited,
                   submitted, batches, errorsLogged, surfaced, restore, report,
                   rewritten,
                   maxBytes>>

(***************************************************************************)
(* PathManager.create_backup_directory: backup_dir.mkdir(parents=True,     *)
(* exist_ok=True).  Nothing is copied.                                     *)
(***************************************************************************)
Mkdir(d) == [d EXCEPT !.bakExists = TRUE]

CreateBackup ==
    /\ pc = "backup"
    /\ IF cfg.backup_enabled
       THEN \E ok \in (IF fs.bakExists THEN {TRUE} ELSE BOOLEAN) :
               IF ok
               THEN fs' = Mkdir(fs) /\ pc' = "gather" /\ error' = error
               ELSE fs' = fs /\ pc' = "except" /\ error' = "MkdirError"
       ELSE fs' = fs /\ pc' = "gather" /\ error' = error
    /\ UNCHANGED <<cfg, fs0, files_to_process, i, futures, awaited,
                   submitted, batches, errorsLogged, surfaced, restore, report,
                   rewritten,
                   maxBytes>>


(***************************************************************************)
(* FileProcessor.process_files                                             *)
(***************************************************************************)
\* lines 109-112: discovery; a directory scan may raise OSError
Gather ==
    /\ pc = "gather"
    /\ \E ok \in BOOLEAN :
          IF ok
          THEN /\ files_to_process' =
                     GatherFiles(Present(fs), cfg.include, cfg.exclude)
               /\ pc' = "dispatch"
               /\ error' = error
          ELSE /\ files_to_process' = files_to_process
               /\ pc' = "except"
               /\ error' = "DiscoveryError"
    /\ UNCHANGED <<cfg, fs, fs0, i, futures, awaited, submitted, batches,
                   errorsLogged, surfaced, restore, report, rewritten,
                   maxBytes>>

\* mutant of Batch: the slice ends one element early
BatchShort(files, start, batch_size) ==
    SubSeq(files, start + 1, Min(start + batch_size - 1, Len(files)))

\* files_to_process[i:i + batch_size], i counted from 0
Batch(files, start, batch_size) ==
    SubSeq(files, start + 1, Min(start + batch_size, Len(files)))

\* range(0, len(files_to_process), batch_size): the next value of i
NextStart(start, batch_size) == start + batch_size

Pending(file) == [file |-> file, st |-> "pending"]

Done(fut) == fut.st \in {"ok", "raised"}

Running == {k \in 1..Len(futures) : futures[k].st = "running"}

\* lines 115-117: one iteration of the batch loop, up to the submits.
\* executor.submit raises RuntimeError when no worker thread can be
\* started; the submits before it have been made.
SubmitBatch ==
    /\ pc = "dispatch"
    /\ awaited = Len(futures)
    /\ i < Len(files_to_process)
    /\ LET batch == Batch(files_to_process, i, cfg.batch_size)
       IN  \E n \in 0..Len(batch) :
              /\ futures' = [k \in 1..n |-> Pending(batch[k])]
              /\ submitted' = submitted \o SubSeq(batch, 1, n)
              /\ IF n = Len(batch)
                 THEN pc' = pc /\ error' = error
                 ELSE pc' = "pool_exit" /\ error' = "PoolError"
    /\ batches' = batches + 1
    /\ i' = NextStart(i, cfg.batch_size)
    /\ awaited' = 0
    /\ UNCHANGED <<cfg, fs, fs0, files_to_process, errorsLogged, surfaced,
                   restore, report, rewritten,
                   maxBytes>>

\* mutant of StartTask: the pool starts a thread for every work item
StartTaskUnbounded ==
    /\ pc \in {"dispatch", "pool_exit"}
    /\ \E k \in 1..Len(futures) :
          /\ futures[k].st = "pending"
          /\ \A j \in 1..(k - 1) : futures[j].st # "pending"
          /\ futures' = [futures EXCEPT ![k].st = "running"]
    /\ UNCHANGED <<cfg, fs, fs0, pc, files_to_process, i, awaited, submitted,
                   batches, errorsLogged, error, surfaced, restore, report,
                   rewritten, maxBytes>>

\* a worker thread takes the oldest queued work item; the pool has at most
\* max_workers = parallel_threads threads
StartTask ==
    /\ pc \in {"dispatch", "pool_exit"}
    /\ Cardinality(Running) < cfg.parallel_threads
    /\ \E k \in 1..Len(futures) :
          /\ futures[k].st = "pending"
          /\ \A j \in 1..(k - 1) : futures[j].st # "pending"
          /\ futures' = [futures EXCEPT ![k].st = "running"]
    /\ UNCHANGED <<cfg, fs, fs0, pc, files_to_process, i, awaited, submitted,
                   batches, errorsLogged, error, surfaced, restore, report,
                   rewritten,
                   maxBytes>>

\* what a transformer (_process_java_file, _process_xml_file,
\* _process_jsp_file) does to its file: the bodies in the source are
\* placeholders ("pass"); a transformer may also rewrite the file or raise
TransformerOutcomes == {"pass", "rewrite", "raise"}

\* mutant of HasTransformer: every file with an extension is transformed
HasAnySuffix(file) == Suffix(file) # ""

\* lines 140-145
HasTransformer(file) == Suffix(file) \in {".java", ".xml", ".jsp"}

\* FileProcessor._process_file run by a worker
FinishTask ==
    /\ pc \in {"dispatch", "pool_exit"}
    /\ \E k \in Running :
          LET file == futures[k].file
          IN  \E o \in (IF HasTransformer(file)
                        THEN TransformerOutcomes ELSE {"pass"}) :
                 /\ futures' =
                       [futures EXCEPT
                          ![k].st = IF o = "raise" THEN "raised" ELSE "ok"]
                 /\ fs' = IF o = "rewrite"
                          THEN [fs EXCEPT !.tree[file] = "new"]
                          ELSE fs
                 /\ rewritten' = IF o = "rewrite"
                                 THEN rewritten \cup {file}
                                 ELSE rewritten
    /\ UNCHANGED <<cfg, fs0, pc, files_to_process, i, awaited, submitted,
                   batches, errorsLogged, error, surfaced, restore, report,
                   maxBytes>>

\* lines 118-122: future.result() of the next future of the batch
AwaitFuture ==
    /\ pc = "dispatch"
    /\ awaited < Len(futures)
    /\ Done(futures[awaited + 1])
    /\ awaited' = awaited + 1
    /\ errorsLogged' =
          IF futures[awaited + 1].st = "raised"
          THEN Append(errorsLogged, futures[awaited + 1].file)
          ELSE errorsLogged
    /\ UNCHANGED <<cfg, fs, fs0, pc, files_to_process, i, futures, submitted,
                   batches, error, surfaced, restore, report, rewritten,
                   maxBytes>>

\* the loop is over: the with block shuts the pool down and returns
ExitPool ==
    /\ pc = "dispatch"
    /\ awaited = Len(futures)
    /\ i >= Len(files_to_process)
    /\ pc' = "report"
    /\ UNCHANGED <<cfg, fs, fs0, files_to_process, i, futures, awaited,
                   submitted, batches, errorsLogged, error, surfaced,
                   restore, report, rewritten,
                   maxBytes>>

\* mutant of ExitPoolRaise: the pool is left without waiting for its tasks
ExitPoolRaiseNoWait ==
    /\ pc = "pool_exit"
    /\ pc' = "except"
    /\ UNCHANGED <<cfg, fs, fs0, files_to_process, i, futures, awaited,
                   submitted, batches, errorsLogged, error, surfaced,
                   restore, report, rewritten, maxBytes>>

\* the with block is left by an exception: shutdown(wait=True) returns when
\* every submitted task has finished, then the exception goes on
ExitPoolRaise ==
    /\ pc = "pool_exit"
    /\ \A k \in 1..Len(futures) : Done(futures[k])
    /\ pc' = "except"
    /\ UNCHANGED <<cfg, fs, fs0, files_to_process, i, futures, awaited,
                   submitted, batches, errorsLogged, error, surfaced,
                   restore, report, rewritten,
                   maxBytes>>

(***************************************************************************)
(* MigrationManager._generate_report                                       *)
(***************************************************************************)
\* the module imports (lines 1-12) do not bind the name json
json_imported == FALSE

\* lines 212-220: the report document; the counts are literals
ReportDocument ==
    [status |-> "completed", files_processed |-> 0, errors |-> <<>>]

GenerateReport ==
    /\ pc = "report"
    /\ IF ~cfg.has_project
       THEN \* config['project'] raises KeyError before the file is opened
            /\ fs' = fs
            /\ report' = report
            /\ pc' = "except"
            /\ error' = "KeyError"
       ELSE \* the document is built, open(report_file, 'w') creates the
            \* file, then json.dump writes the document into it
            /\ report' = <<ReportDocument>>
            /\ fs' = [fs EXCEPT !.reports = 1]
            /\ IF json_imported
               THEN pc' = "completed" /\ error' = error
               ELSE pc' = "except" /\ error' = "NameError"
    /\ UNCHANGED <<cfg, fs0, files_to_process, i, futures, awaited, submitted,
                   batches, errorsLogged, surfaced, restore, rewritten,
                   maxBytes>>

(***************************************************************************)
(* MigrationManager._rollback and the handler of execute_migration         *)
(***************************************************************************)
\* shutil.rmtree(base_dir): a backup directory inside the base goes with it
Rmtree(d, inside) ==
    [d EXCEPT !.baseExists = FALSE, !.tree = AllAbsent, !.reports = 0,
              !.bakExists = IF inside THEN FALSE ELSE @,
              !.bak = IF inside THEN AllAbsent ELSE @]

\* shutil.copytree(backup_dir, base_dir), base_dir not existing
Copytree(d) == [d EXCEPT !.baseExists = TRUE, !.tree = d.bak]

\* _rollback: the file system it leaves and how it ended
Rollback(d, inside) ==
    IF ~d.bakExists THEN [fs |-> d, restore |-> "skipped"]
    ELSE IF ~d.baseExists
         THEN \* rmtree raises FileNotFoundError
              [fs |-> d, restore |-> "raised"]
         ELSE LET g == Rmtree(d, inside)
              IN  IF ~g.bakExists
                  THEN \* copytree raises FileNotFoundError
                       [fs |-> g, restore |-> "raised"]
                  ELSE [fs |-> Copytree(g), restore |-> "restored"]

\* mutant of ShouldRollback: the handler also asks for backup_enabled
ShouldRollbackIfBackup(c) == c.rollback_enabled /\ c.backup_enabled

\* line 205
ShouldRollback(c) == c.rollback_enabled

\* lines 203-207: an exception raised by _rollback leaves the handler in
\* place of the one caught
HandleFatal ==
    /\ pc = "except"
    /\ LET r == IF ShouldRollback(cfg) THEN Rollback(fs, Inside)
                ELSE [fs |-> fs, restore |-> "skipped"]
       IN  /\ fs' = r.fs
           /\ restore' = r.restore
           /\ surfaced' = IF r.restore = "raised" THEN "RestoreError"
                          ELSE error
    /\ pc' = "failed"
    /\ UNCHANGED <<cfg, fs0, files_to_process, i, futures, awaited, submitted,
                   batches, errorsLogged, error, report, rewritten,
                   maxBytes>>

Next ==
    \/ Construct
    \/ Validate
    \/ CreateBackup
    \/ Gather
    \/ SubmitBatch
    \/ StartTask
    \/ FinishTask
    \/ AwaitFuture
    \/ ExitPool
    \/ ExitPoolRaise
    \/ GenerateReport
    \/ HandleFatal

Spec == Init /\ [][Next]_vars


(***************************************************************************)
(* _gather_files on its own: process_files is entered with any include     *)
(* and exclude lists of up to MaxPatterns patterns over any tree.          *)
(***************************************************************************)
OptionalFiles == { <<"A.java">>, <<"notes.txt">>, <<"src", "B.java">> }

InitGather ==
    /\ \E inc \in SeqsUpTo(IncludePatterns, MaxPatterns),
          exc \in SeqsUpTo(ExcludePatterns, MaxPatterns) :
          cfg = [backup_enabled |-> FALSE, rollback_enabled |-> FALSE,
                 batch_size |-> 1, parallel_threads |-> 1,
                 include |-> inc, exclude |-> exc,
                 has_project |-> TRUE, backup_loc |-> "outside",
                 sections |-> SectionNames,
                 max_size |-> <<"1", "0", "M", "B">>]
    /\ \E gone \in SUBSET OptionalFiles :
          fs = [baseExists |-> TRUE,
                tree |-> [f \in FileSet |->
                            IF f \in gone THEN "absent" ELSE "orig"],
                reports |-> 0, bakExists |-> FALSE, bak |-> AllAbsent]
    /\ fs0 = fs
    /\ pc = "gather"
    /\ maxBytes = << <<0, 0, 10>> >>
    /\ InitRun

SpecGather == InitGather /\ [][Gather]_vars


(***************************************************************************)
(* parse_size on its own: the constructor is entered with logging.max_size *)
(* any string of up to MaxDigits digits followed by up to MaxUnitLen       *)
(* letters.                                                                *)
(***************************************************************************)
DigitAlphabet == {"0", "1", "2", "5"}
UnitAlphabet == {"b", "k", "m", "g", "x", "B", "K", "M", "G", "X"}

InitSize ==
    /\ \E digits \in SeqsUpTo(DigitAlphabet, MaxDigits) \ {<<>>},
          unit \in SeqsUpTo(UnitAlphabet, MaxUnitLen) \ {<<>>} :
          cfg = [backup_enabled |-> FALSE, rollback_enabled |-> FALSE,
                 batch_size |-> 1, parallel_threads |-> 1,
                 include |-> <<>>, exclude |-> <<>>,
                 has_project |-> TRUE, backup_loc |-> "outside",
                 sections |-> SectionNames,
                 max_size |-> digits \o unit]
    /\ fs = [baseExists |-> TRUE, tree |-> FullTree,
             reports |-> 0, bakExists |-> FALSE, bak |-> AllAbsent]
    /\ fs0 = fs
    /\ pc = "construct"
    /\ maxBytes = <<>>
    /\ InitRun

SpecSize == InitSize /\ [][Construct]_vars


(***************************************************************************)
(* Properties.                                                             *)
(***************************************************************************)
Ceil(n, b) == (n + b - 1) \div b

NoDuplicates(q) ==
    \A j, k \in 1..Len(q) : j # k => q[j] # q[k]

Terminal == pc \in {"completed", "failed"}

RestoreExecuted == restore \in {"restored", "raised"}

\* the errors that come from outside the per-file path of the run
EnvironmentErrors ==
    {"PathNotFound", "MkdirError", "DiscoveryError", "PoolError"}

\* C1: when process_files returns, it has formed ceil(N/B) batches and has
\* submitted the entries of the discovered list, each once and in order,
\* whatever the outcomes of the tasks.
C1_EveryFileDispatchedOnce ==
    pc = "report" =>
        /\ batches = Ceil(Len(files_to_process), cfg.batch_size)
        /\ submitted = files_to_process

\* C1 witness: process_files has returned after several batches, the last
\* one short, with a task that raised.
C1_Witness ==
    /\ pc = "report"
    /\ batches >= 2
    /\ Len(files_to_process) % cfg.batch_size # 0
    /\ errorsLogged # <<>>

\* C2: a run in which a transformer raised, and in which nothing outside
\* the per-file path went wrong, ends Completed with the failed files in
\* the error list of the report.
C2_SoftFailureStillCompletes ==
    (/\ Terminal
     /\ errorsLogged # <<>>
     /\ cfg.has_project
     /\ error \notin EnvironmentErrors)
        => /\ pc = "completed"
           /\ surfaced = "none"
           /\ report # <<>>
           /\ \A k \in 1..Len(errorsLogged) :
                 \E j \in 1..Len(report[1].errors) :
                    report[1].errors[j] = errorsLogged[k]

\* C3: with backup and rollback enabled, after a fatal error during
\* Processing with files already rewritten, the finished rollback leaves
\* the base tree as it was before the run.
C3_RollbackRestoresTree ==
    (/\ pc = "failed"
     /\ cfg.backup_enabled
     /\ cfg.rollback_enabled
     /\ error = "PoolError"
     /\ rewritten # {})
        => /\ fs.baseExists
           /\ fs.tree = fs0.tree

\* C4: with backup enabled, once a file has been dispatched the backup
\* directory holds a copy of every file of the tree.
C4_SnapshotBeforeDispatch ==
    (cfg.backup_enabled /\ submitted # <<>>)
        => /\ fs.bakExists
           /\ \A f \in FileSet :
                 fs0.tree[f] # "absent" => fs.bak[f] = fs0.tree[f]


\* C5: a run that failed path validation ends without a restore having
\* been executed and with the file system as it was before the run.
C5_ValidationFailureTouchesNothing ==
    (pc = "failed" /\ error = "PathNotFound")
        => /\ ~RestoreExecuted
           /\ fs = fs0

\* C6: the restore is executed only in runs with backup_enabled.
C6_RestoreOnlyWithBackupEnabled ==
    RestoreExecuted => (cfg.backup_enabled /\ error # "none")

\* C7: the handler of a fatal error executes the restore exactly if
\* rollback_enabled is set and the backup directory exists, whichever step
\* raised the error.
C7_RestoreIffRollbackAndBackupDir ==
    [][pc = "except" =>
          (RestoreExecuted' <=> (cfg.rollback_enabled /\ fs.bakExists))]_vars

\* C7 witness: the restore has been executed after the validation step
\* raised, in a run without backup_enabled.
C7_Witness ==
    /\ pc = "failed"
    /\ error = "PathNotFound"
    /\ ~cfg.backup_enabled
    /\ restore = "restored"

\* C8: a run that entered _rollback ends Failed and surfaces the error that
\* was caught.
C8_OriginalErrorSurfaces ==
    (Terminal /\ error # "none" /\ cfg.rollback_enabled)
        => (pc = "failed" /\ surfaced = error)

\* C9: no file of the result of _gather_files matches an exclude pattern.
C9_ExclusionDominates ==
    pc = "dispatch" =>
        \A k \in 1..Len(files_to_process) :
           \A e \in 1..Len(cfg.exclude) :
              ~Match(files_to_process[k], cfg.exclude[e])

\* C9 witness: a present file matched by two entries of the include list
\* and by the last of two exclude patterns only; discovery has run and
\* has kept other files.
C9_Witness ==
    /\ pc = "dispatch"
    /\ files_to_process # <<>>
    /\ Len(cfg.exclude) = 2
    /\ \E f \in Present(fs) :
          /\ Cardinality({k \in 1..Len(cfg.include) :
                             GlobMatch(f, cfg.include[k])}) >= 2
          /\ ~Match(f, cfg.exclude[1])
          /\ Match(f, cfg.exclude[2])

\* C10: the result of _gather_files, and so the sequence of files handed
\* to the pool, holds no path twice.
C10_NoDuplicateFiles ==
    NoDuplicates(files_to_process) /\ NoDuplicates(submitted)

\* C11: the report document records the number of files the dispatcher
\* attempted and one error entry for each file whose processing failed.
C11_ReportRecordsOutcome ==
    report # <<>> =>
        /\ report[1].files_processed = Len(submitted)
        /\ Len(report[1].errors) = Len(errorsLogged)
        /\ \A k \in 1..Len(errorsLogged) :
              report[1].errors[k] = errorsLogged[k]

\* C12: at most parallel_threads tasks run at the same time, and files are
\* submitted to the pool only when every task submitted before has
\* finished.
C12_BoundedPoolSequentialBatches ==
    /\ [](Cardinality(Running) <= cfg.parallel_threads)
    /\ [][submitted' # submitted =>
             \A k \in 1..Len(futures) : Done(futures[k])]_vars

\* C12 witness: in a later batch, every thread of the pool runs a task
\* while another task of the batch waits in the queue.
C12_Witness ==
    /\ batches >= 2
    /\ Cardinality(Running) = cfg.parallel_threads
    /\ \E k \in 1..Len(futures) : futures[k].st = "pending"

\* C13: with one of the five sections missing from the configuration,
\* construction fails with an error and no step of the migration (path
\* validation, backup, discovery, dispatch) is executed.
C13_IncompleteConfigNeverRuns ==
    (\E name \in SectionNames : name \notin cfg.sections)
        => /\ pc \in {"construct", "construct_failed"}
           /\ pc = "construct_failed" => surfaced = "ConfigError"
           /\ error = "none"
           /\ fs = fs0
           /\ files_to_process = <<>>
           /\ submitted = <<>>

\* C13 witness: construction has failed for a configuration that lacks
\* the logging section only.
C13_Witness ==
    /\ pc = "construct_failed"
    /\ cfg.sections = SectionNames \ {"logging"}

\* C14: a run ends Completed only with the report persisted and Failed
\* only after a fatal error, and a run in which nothing but the processing
\* of individual files failed does not end Failed.
C14_TerminalStates ==
    /\ pc = "completed" => (report # <<>> /\ fs.reports = 1 /\ error = "none")
    /\ pc = "failed" => error # "none"
    /\ (pc = "failed" /\ errorsLogged # <<>>)
          => (error \in EnvironmentErrors \/ ~cfg.has_project)

\* C15: a task for a file whose extension is none of .java, .xml, .jsp
\* ends without error and changes nothing but its own future.
C15_UnrecognizedExtensionIsNoOp ==
    [][\A k \in 1..Len(futures) :
          (/\ futures[k].st = "running"
           /\ Suffix(futures[k].file) \notin {".java", ".xml", ".jsp"}
           /\ Len(futures') = Len(futures)
           /\ futures'[k].st # "running")
             => /\ futures'[k].st = "ok"
                /\ fs' = fs
                /\ rewritten' = rewritten
                /\ errorsLogged' = errorsLogged
                /\ error' = error
                /\ \A j \in 1..Len(futures) : j # k => futures'[j] = futures[j]
      ]_vars

\* C15 witness: the task of notes.txt has finished.
C15_Witness ==
    \E k \in 1..Len(futures) :
       /\ futures[k].file = <<"notes.txt">>
       /\ futures[k].st = "ok"

\* the value of a string of decimal digits, most significant digit first
RECURSIVE Decimal(_, _)
Decimal(digits, acc) ==
    IF digits = <<>> THEN acc
    ELSE Decimal(Tail(digits), 10 * acc + DigitValue(Head(digits)))

\* the power of 1024 of a unit written in any letter case; -1 for any
\* other unit
Power(unit) ==
    CASE unit \in {<<"b">>, <<"B">>} -> 0
      [] unit \in {<<x, y>> : x \in {"k", "K"}, y \in {"b", "B"}} -> 1
      [] unit \in {<<x, y>> : x \in {"m", "M"}, y \in {"b", "B"}} -> 2
      [] unit \in {<<x, y>> : x \in {"g", "G"}, y \in {"b", "B"}} -> 3
      [] OTHER -> -1

\* the base-1024 digits of n * 1024^e
RECURSIVE Limbs(_)
Limbs(n) == IF n = 0 THEN <<>> ELSE <<n % 1024>> \o Limbs(n \div 1024)

Scaled(n, e) == IF n = 0 THEN <<>> ELSE [k \in 1..e |-> 0] \o Limbs(n)

\* C16: for a string of digits followed by a unit, parse_size returns the
\* digits times 1, 1024, 1024^2 or 1024^3 for B, KB, MB, GB in any letter
\* case, and raises for any other unit.
C16_ParseSize ==
    pc # "construct" =>
        \A p \in 1..(Len(cfg.max_size) - 1) :
           LET digits == SubSeq(cfg.max_size, 1, p)
               unit   == SubSeq(cfg.max_size, p + 1, Len(cfg.max_size))
           IN  (/\ \A k \in 1..Len(digits) : digits[k] \in DigitAlphabet
                /\ \A k \in 1..Len(unit) : unit[k] \in UnitAlphabet)
                  => IF Power(unit) >= 0
                     THEN /\ pc = "validate"
                          /\ maxBytes =
                                <<Scaled(Decimal(digits, 0), Power(unit))>>
                     ELSE /\ pc = "construct_failed"
                          /\ surfaced = "KeyError"
                          /\ maxBytes = <<>>

\* C16 witness: "10mB" has been parsed to 10 * 1024^2 = 10485760.
C16_Witness ==
    /\ cfg.max_size = <<"1", "0", "m", "B">>
    /\ maxBytes = <<Scaled(10, 2)>>

\* C17: when _rollback starts with the backup directory (and the base
\* directory) existing, it ends with the base directory holding a copy of
\* what the backup directory held, and with the backup directory as it was,
\* wherever the configuration puts the backup directory.
C17_RollbackCopiesBackup ==
    [][(/\ pc = "except"
        /\ cfg.rollback_enabled
        /\ fs.bakExists
        /\ fs.baseExists)
          => /\ fs'.baseExists
             /\ fs'.tree = fs.bak
             /\ fs'.bakExists
             /\ fs'.bak = fs.bak]_vars

\* C18: outside of process_files (backup directory, report, handler and
\* rollback) no submitted task is queued or running.
C18_NoTaskOutsideProcessing ==
    pc \notin {"dispatch", "pool_exit"} =>
        \A k \in 1..Len(futures) : Done(futures[k])

\* C18 witness: process_files was left by an exception of the pool with
\* tasks of the batch submitted, and the restore has run since.
C18_Witness ==
    /\ pc = "failed"
    /\ error = "PoolError"
    /\ futures # <<>>
    /\ restore = "restored"

\* C19: a run with a validated configuration, all required paths and no
\* failure of the file system or the pool ends Completed.
C19_ValidRunCompletes ==
    (Terminal /\ error \notin EnvironmentErrors) => pc = "completed"

====
